---- MODULE Spec2Model ----
(***************************************************************************)
(* Model of the port layer's exec handlers                                 *)
(* (apiservers/portlayer/restapi/handlers/exec_handlers.go):               *)
(* ContainerCreateHandler with addContainerToScope and its deferred        *)
(* network rollback, and ContainerStartHandler.  Each create request is a  *)
(* worker that walks through the handler's calls one at a time; the        *)
(* network scopes and the control plane's virtual machines are the shared  *)
(* state.                                                                  *)
(***************************************************************************)
EXTENDS Integers, Sequences, FiniteSets, TLC

\* ---------------------------------------------------------------- bounds
\* Largest number of scopes a lookup by name returns.
MaxScopes == 2
\* Largest host set AttachedClusterHosts returns.
MaxHosts == 2
\* Addresses in the pool of each scope.
PoolSize == 2

\* The create requests (one worker each) and the names they may carry.
Reqs == {"r1", "r2"}
Names == {"c1", "c2"}

\* ---------------------------------------------------------------- values
\* A nil pointer, a nil error, a nil scope handle.
Nil == "nil"
\* A nil *net.IP.
NoIP == 0
IPs == 1..PoolSize

\* Scope handles: the scope DefaultScope() returns, and the scopes a lookup by
\* the name "custom" can return, the scope of that name first.
BridgeScope == "bridge"
CustomScopes == <<"custom", "custom-2", "custom-3", "custom-4">>

\* A nil *metadata.NetworkEndpoint.
NoEndpoint == [IP |-> NoIP, Name |-> Nil]
\* A nil *models.NetworkConfig.
NoNetworkConfig == [NetworkName |-> Nil, Address |-> Nil]

\* The static addresses a request may carry: nil, one that parses, one that
\* does not.
AddressStrings == {Nil, "10.0.0.1", "not-an-ip"}

\* The NetworkSettings a request may carry.
NetworkConfigs ==
    {NoNetworkConfig} \cup
    [NetworkName : {"default", "custom"}, Address : AddressStrings]

\* net.ParseIP on the address strings above: the address, or nil.
ParseIP(str) ==
    IF str = "10.0.0.1" THEN 1 ELSE NoIP

\* ctx := context.Background(): a context that is never cancelled and has no
\* deadline, whatever signal the outside world raises.
ctxDone(signal) == FALSE

\* ------------------------------------------------------------ the state
VARIABLES
    pc,        \* [Reqs -> position of the create handler]
    params,    \* [Reqs -> the request's fields, each drawn when first read]
    name,      \* [Reqs -> the handler's name]
    ne,        \* [Reqs -> the handler's ne]
    s,         \* [Reqs -> the handler's s (a scope handle, or nil)]
    err,       \* [Reqs -> the handler's err]
    linux,     \* [Reqs -> the configuration NewLinuxGuest returned]
    resp,      \* [Reqs -> the response: none, ok, error, panic]
    task,      \* [Reqs -> the create-VM task: none, pending, success, error]
    deadline,  \* [Reqs -> whether the client's deadline has fired]
    hist,      \* [Reqs -> what the request did: see NoHist]
    endpoints, \* the scopes' endpoints: records [scope, name, ip, owner]
    vms,       \* [Reqs -> absent, created, poweredOn]: the VM of each ID
    st         \* the start handler's worker: see StartIdle

vars == <<pc, params, name, ne, s, err, linux, resp, task, deadline, hist,
          endpoints, vms, st>>

\* A VirtualMachineConfigSpecConfig that was never built.
NoConfig == [ID |-> Nil, Name |-> Nil, Networks |-> {}]

\* ------------------------------------------------------------- history
\* One call a request made to a collaborator, with the scope and the
\* container name it was made for (nil where the call takes none).
Call(op, scope, nm) == [op |-> op, scope |-> scope, name |-> nm]

\* How many calls of `op` a log holds.
Count(log, op) == Cardinality({i \in 1..Len(log) : log[i].op = op})

\* What a request has done so far:
\*   attached   addContainerToScope has returned
\*   attachErr  the error addContainerToScope returned
\*   lookupLen  how many scopes the lookup by name returned (-1: no lookup)
\*   lookupErr  the error the lookup by name returned
\*   noHosts    the host lookup succeeded with an empty host set
\*   failed     the phase whose error made the handler return
\*   relErr     the error of the compensating RemoveContainer
\*   msg        the error message the response carries
\*   allocated  the endpoint records the scope gained by this request's attach
\*   nameTaken  AddContainer was called while the name had an endpoint in the
\*              scope
\*   built      guest.NewLinuxGuest returned the configuration without error
\*   sent       the configuration passed to the create-VM call
\*   containerID  the container ID in the payload of the success response
\*   log        the calls made to collaborators, in order
NoHist ==
    [attached |-> FALSE, attachErr |-> Nil, lookupLen |-> -1,
     lookupErr |-> Nil, noHosts |-> FALSE, failed |-> Nil, relErr |-> Nil,
     msg |-> Nil, allocated |-> {}, nameTaken |-> FALSE, built |-> FALSE,
     sent |-> NoConfig, containerID |-> Nil, log |-> <<>>]

\* The request before the handler has read a field of it.
Unread == "unread"
NoParams ==
    [Path |-> Unread, Image |-> Unread,
     NetworkSettings |-> [NetworkName |-> Unread, Address |-> Unread]]

\* ------------------------------------------------------ scope provider
\* The addresses of scope `sc` no endpoint holds.
Free(eps, sc) == IPs \ {e.ip : e \in {x \in eps : x.scope = sc}}

\* Whether container `nm` has an endpoint in scope `sc`.
Holds(eps, sc, nm) == \E e \in eps : e.scope = sc /\ e.name = nm

\* A variant that hands out a requested address without looking whether it
\* is taken.
AddContainerUnchecked(eps, sc, nm, ip) ==
    {[err |-> "add failed", ip |-> NoIP]} \cup
    {[err |-> Nil, ip |-> i] :
        i \in IF Holds(eps, sc, nm) THEN {}
              ELSE IF ip # NoIP THEN {ip}
              ELSE Free(eps, sc)}

\* Scope.AddContainer(name, ip): an error, or an endpoint with the requested
\* address if it is free, or with any free address if none was requested.
\* A container has at most one endpoint in a scope.
AddContainer(eps, sc, nm, ip) ==
    {[err |-> "add failed", ip |-> NoIP]} \cup
    {[err |-> Nil, ip |-> i] :
        i \in IF Holds(eps, sc, nm) THEN {}
              ELSE IF ip # NoIP THEN {ip} \cap Free(eps, sc)
              ELSE Free(eps, sc)}

\* Scope.RemoveContainer(name) with outcome `out`: the container's endpoint is
\* gone, or the call failed and the scope is as it was.
RemoveOutcomes == {Nil, "remove failed"}
RemoveContainer(eps, sc, nm, out) ==
    IF out = Nil THEN {e \in eps : ~(e.scope = sc /\ e.name = nm)} ELSE eps

\* Context.Scopes(&name): an error, or the list of the scopes that match.
LookupResults ==
    {[scopes |-> <<>>, err |-> "lookup failed"]} \cup
    {[scopes |-> SubSeq(CustomScopes, 1, n), err |-> Nil] : n \in 0..MaxScopes}

\* ------------------------------------------------- addContainerToScope
\* A variant without the nil check: every request goes on to the scope switch.
NoAttachRequestedUnchecked(nsv) == FALSE

\* The nil check on the request's NetworkSettings.
NoAttachRequested(nsv) == nsv = NoNetworkConfig

\* The scope switch: the scope to attach to, or the early return with the
\* lookup's error when the lookup failed or did not return exactly one scope.
ResolveScope(nsv, lr) ==
    IF nsv.NetworkName = "default"
    THEN [s |-> BridgeScope, err |-> Nil, ret |-> FALSE, looked |-> FALSE]
    ELSE IF lr.err # Nil \/ Len(lr.scopes) # 1
         THEN [s |-> Nil, err |-> lr.err, ret |-> TRUE, looked |-> TRUE]
         ELSE [s |-> lr.scopes[1], err |-> Nil, ret |-> FALSE, looked |-> TRUE]

\* A variant that does not validate the address: a string that does not parse
\* goes on as no address at all.
ParseFailsUnchecked(addr) == FALSE

\* Whether the static address is given and does not parse.
ParseFails(addr) == addr # Nil /\ ParseIP(addr) = NoIP

\* A result of addContainerToScope: the three values returned, the lookup it
\* made (looked, lookupLen, lookupErr) and the AddContainer call it made
\* (calls, and the endpoint record the scope gained).
AttachResult(e, sc, er, rs, lr, calls, gained) ==
    [ne |-> e, s |-> sc, err |-> er,
     lookupLen |-> IF rs.looked THEN Len(lr.scopes) ELSE -1,
     lookupErr |-> IF rs.looked THEN lr.err ELSE Nil,
     calls |-> calls, gained |-> gained]

\* A variant that hands the scope back together with AddContainer's error.
ScopeOnAddErrorKept(sc) == sc

\* The scope addContainerToScope returns when AddContainer on scope sc
\* failed: "return nil, nil, err".
ScopeOnAddError(sc) == Nil

NotLooked == [s |-> Nil, err |-> Nil, ret |-> TRUE, looked |-> FALSE]

\* addContainerToScope(name, ns) for request r, the lookup returning lr: the
\* set of its possible results, one for each outcome of AddContainer.
addContainerToScope(r, nm, nsv, lr, eps) ==
    IF NoAttachRequested(nsv)
    THEN {AttachResult(NoEndpoint, Nil, Nil, NotLooked, lr, <<>>, {})}
    ELSE LET rs == ResolveScope(nsv, lr) IN
         IF rs.ret
         THEN {AttachResult(NoEndpoint, Nil, rs.err, rs, lr, <<>>, {})}
         ELSE IF ParseFails(nsv.Address)
         THEN {AttachResult(NoEndpoint, Nil, "invalid ip address", rs, lr,
                            <<>>, {})}
         ELSE LET ip == IF nsv.Address # Nil THEN ParseIP(nsv.Address)
                        ELSE NoIP
                  call == <<Call("AddContainer", rs.s, nm)>>
              IN {IF a.err # Nil
                  THEN AttachResult(NoEndpoint, ScopeOnAddError(rs.s), a.err,
                                    rs, lr, call, {})
                  ELSE AttachResult([IP |-> a.ip, Name |-> rs.s], rs.s, Nil,
                                    rs, lr, call,
                                    {[scope |-> rs.s, name |-> nm,
                                      ip |-> a.ip, owner |-> r]})
                  : a \in AddContainer(eps, rs.s, nm, ip)}

\* ------------------------------------------------ the deferred function
\* A variant of the deferred function that logs the error and releases
\* nothing.
DeferredCallsLogOnly(e, sc, nm) == <<>>

\* A variant of the deferred function that releases whether or not the
\* handler failed.
DeferredCallsAlways(e, sc, nm) ==
    IF sc # Nil THEN <<Call("RemoveContainer", sc, nm)>> ELSE <<>>

\* The calls the deferred function makes, given the handler's err, s and name
\* at the time it runs.
DeferredCalls(e, sc, nm) ==
    IF e # Nil /\ sc # Nil THEN <<Call("RemoveContainer", sc, nm)>> ELSE <<>>

\* A variant in which the error of the release takes the place of the
\* handler's error.
ReturnedErrorMasked(e, ro) == IF ro # Nil THEN ro ELSE e

\* The error the response carries, e being the handler's err when it returned
\* and ro the result of the deferred RemoveContainer, which is dropped.
ReturnedError(e, ro) == e

\* The handler of request r leaves with response rsp, err being e and its
\* history h: the deferred function runs, then the response goes out.  The
\* deferred function runs when the handler panics, too.
Finish(r, rsp, e, h) ==
    \E ro \in RemoveOutcomes :
        LET calls == DeferredCalls(e, s[r], name[r]) IN
        /\ endpoints' = IF calls # <<>>
                        THEN RemoveContainer(endpoints, s[r], name[r], ro)
                        ELSE endpoints
        /\ hist' = [hist EXCEPT ![r] =
                      [h EXCEPT !.log = h.log \o calls,
                                !.relErr = IF calls # <<>> THEN ro ELSE Nil,
                                !.msg = IF rsp # "error" THEN Nil
                                        ELSE IF calls # <<>>
                                        THEN ReturnedError(e, ro)
                                        ELSE e]]
        /\ resp' = [resp EXCEPT ![r] = rsp]
        /\ err' = [err EXCEPT ![r] = e]
        /\ pc' = [pc EXCEPT ![r] = "done"]

\* ------------------------------------------- ContainerCreateHandler
\* The handler starts: it generates the ID (the request's own, r), takes the
\* client's name or a random one, and fills metadata.Cmd, which dereferences
\* Path; with Path nil the handler panics before anything is deferred.
Begin(r) ==
    /\ pc[r] = "idle"
    /\ \E given \in Names \cup {Nil}, nm \in Names, path \in {Nil, "/bin/sh"} :
        /\ given # Nil => nm = given
        /\ name' = [name EXCEPT ![r] = nm]
        /\ params' = [params EXCEPT ![r].Path = path]
        /\ IF path = Nil
           THEN /\ pc' = [pc EXCEPT ![r] = "done"]
                /\ resp' = [resp EXCEPT ![r] = "panic"]
           ELSE /\ pc' = [pc EXCEPT ![r] = "attach"]
                /\ resp' = resp
    /\ UNCHANGED <<ne, s, err, linux, task, deadline, hist, endpoints, vms, st>>

\* ne, s, err := handler.addContainerToScope(name, ns), and the deferred
\* function is registered.  The handler does not test err here.
Attach(r) ==
    /\ pc[r] = "attach"
    /\ \E nsv \in NetworkConfigs, lr \in LookupResults :
        \E res \in addContainerToScope(r, name[r], nsv, lr, endpoints) :
            /\ params' = [params EXCEPT ![r].NetworkSettings = nsv]
            /\ ne' = [ne EXCEPT ![r] = res.ne]
            /\ s' = [s EXCEPT ![r] = res.s]
            /\ err' = [err EXCEPT ![r] = res.err]
            /\ endpoints' = endpoints \cup res.gained
            /\ hist' = [hist EXCEPT ![r] =
                          [@ EXCEPT !.attached = TRUE,
                                    !.attachErr = res.err,
                                    !.lookupLen = res.lookupLen,
                                    !.lookupErr = res.lookupErr,
                                    !.allocated = res.gained,
                                    !.nameTaken =
                                        \E i \in 1..Len(res.calls) :
                                            Holds(endpoints,
                                                  res.calls[i].scope, name[r]),
                                    !.log = @ \o res.calls]]
    /\ pc' = [pc EXCEPT ![r] = "build"]
    /\ UNCHANGED <<name, linux, resp, task, deadline, vms, st>>

\* A variant that leaves the endpoint out of the metadata.
NetworksUnset(e) == {}

\* m.Networks after "if ne != nil { m.Networks[ne.Network.Name] = *ne }": the
\* map as a set of key/value pairs.
Networks(e) ==
    IF e # NoEndpoint THEN {[key |-> e.Name, value |-> e]} ELSE {}

\* A variant that goes on after a failed build.
BuildFailsUnchecked(out) == FALSE

\* The test of NewLinuxGuest's error: the handler returns when it is set.
BuildFails(out) == out # Nil

\* The configuration is filled, which dereferences Image (a panic when it is
\* nil), and guest.NewLinuxGuest is called; its error is assigned to err.
Build(r) ==
    /\ pc[r] = "build"
    /\ \E img \in {Nil, "img1"}, out \in {Nil, "guest failed"} :
        /\ params' = [params EXCEPT ![r].Image = img]
        /\ IF img = Nil
           THEN /\ Finish(r, "panic", err[r], hist[r])
                /\ linux' = linux
           ELSE LET h == [hist[r] EXCEPT
                            !.log = @ \o <<Call("NewLinuxGuest", Nil, Nil)>>,
                            !.built = out = Nil,
                            !.failed = IF out # Nil THEN "build" ELSE Nil]
                    specconfig == [ID |-> r, Name |-> name[r],
                                   Networks |-> Networks(ne[r])]
                IN IF BuildFails(out)
                   THEN /\ Finish(r, "error", out, h)
                        /\ linux' = linux
                   ELSE /\ linux' = [linux EXCEPT ![r] =
                                       IF out = Nil THEN specconfig
                                       ELSE NoConfig]
                        /\ err' = [err EXCEPT ![r] = out]
                        /\ hist' = [hist EXCEPT ![r] = h]
                        /\ pc' = [pc EXCEPT ![r] = "folders"]
                        /\ UNCHANGED <<resp, endpoints>>
    /\ UNCHANGED <<name, ne, s, task, deadline, vms, st>>

\* folders, err := session.Datacenter.Folders(ctx)
Folders(r) ==
    /\ pc[r] = "folders"
    /\ \E out \in {Nil, "folders failed"} :
        LET h == [hist[r] EXCEPT
                    !.log = @ \o <<Call("Folders", Nil, Nil)>>,
                    !.failed = IF out # Nil THEN "folders" ELSE Nil]
        IN IF out # Nil
           THEN Finish(r, "error", out, h)
           ELSE /\ err' = [err EXCEPT ![r] = Nil]
                /\ hist' = [hist EXCEPT ![r] = h]
                /\ pc' = [pc EXCEPT ![r] = "hosts"]
                /\ UNCHANGED <<resp, endpoints>>
    /\ UNCHANGED <<params, name, ne, s, linux, task, deadline, vms, st>>

\* hosts, err := session.Datastore.AttachedClusterHosts(ctx, session.Cluster)
\* and host := hosts[rand.Intn(len(hosts))]: rand.Intn panics on 0, with err
\* nil since the lookup succeeded.
Hosts(r) ==
    /\ pc[r] = "hosts"
    /\ \E out \in {Nil, "hosts failed"}, n \in 0..MaxHosts :
        LET h == [hist[r] EXCEPT
                    !.log = @ \o <<Call("AttachedClusterHosts", Nil, Nil)>>,
                    !.noHosts = out = Nil /\ n = 0,
                    !.failed = IF out # Nil THEN "hosts" ELSE Nil]
        IN IF out # Nil
           THEN Finish(r, "error", out, h)
           ELSE IF n = 0
           THEN Finish(r, "panic", Nil, h)
           ELSE /\ err' = [err EXCEPT ![r] = Nil]
                /\ hist' = [hist EXCEPT ![r] = h]
                /\ pc' = [pc EXCEPT ![r] = "create"]
                /\ UNCHANGED <<resp, endpoints>>
    /\ UNCHANGED <<params, name, ne, s, linux, task, deadline, vms, st>>

\* tasks.WaitForResult calls parent.CreateVM(ctx, *linux.Spec(), pool, host):
\* the control plane refuses the call, or the task is started.
CreateVM(r) ==
    /\ pc[r] = "create"
    /\ \E out \in {Nil, "create refused"} :
        LET h == [hist[r] EXCEPT
                    !.log = @ \o <<Call("CreateVM", Nil, Nil)>>,
                    !.sent = linux[r],
                    !.failed = IF out # Nil THEN "create" ELSE Nil]
        IN IF out # Nil
           THEN /\ Finish(r, "error", out, h)
                /\ task' = task
           ELSE /\ task' = [task EXCEPT ![r] = "pending"]
                /\ hist' = [hist EXCEPT ![r] = h]
                /\ pc' = [pc EXCEPT ![r] = "waiting"]
                /\ UNCHANGED <<err, resp, endpoints>>
    /\ UNCHANGED <<params, name, ne, s, linux, deadline, vms, st>>

\* The control plane resolves the create-VM task: the VM exists, or not.
TaskResolve(r) ==
    /\ task[r] = "pending"
    /\ \E out \in {"success", "error"} :
        /\ task' = [task EXCEPT ![r] = out]
        /\ vms' = IF out = "success" THEN [vms EXCEPT ![r] = "created"]
                  ELSE vms
    /\ UNCHANGED <<pc, params, name, ne, s, err, linux, resp, deadline, hist,
                   endpoints, st>>

\* The client's deadline fires, or the client goes away, while the handler
\* waits for a task that is still pending.
Deadline(r) ==
    /\ pc[r] = "waiting"
    /\ task[r] = "pending"
    /\ ~deadline[r]
    /\ deadline' = [deadline EXCEPT ![r] = TRUE]
    /\ UNCHANGED <<pc, params, name, ne, s, err, linux, resp, task, hist,
                   endpoints, vms, st>>

\* tasks.WaitForResult returns: the task is resolved, or ctx is done.  The
\* handler answers with the error, or with the container ID; the request is
\* over, and its deadline with it.
Wait(r) ==
    /\ pc[r] = "waiting"
    /\ task[r] # "pending" \/ ctxDone(deadline[r])
    /\ LET out == IF task[r] = "success" THEN Nil
                  ELSE IF task[r] = "error" THEN "create failed"
                  ELSE "cancelled"
           h == [hist[r] EXCEPT
                    !.failed = IF out # Nil THEN "create" ELSE Nil,
                    !.containerID = IF out = Nil THEN linux[r].ID ELSE Nil]
       IN Finish(r, IF out # Nil THEN "error" ELSE "ok", out, h)
    /\ deadline' = [deadline EXCEPT ![r] = FALSE]
    /\ UNCHANGED <<params, name, ne, s, linux, task, vms, st>>

\* One step of the create handler of request r.
Handler(r) ==
    \/ Begin(r)
    \/ Attach(r)
    \/ Build(r)
    \/ Folders(r)
    \/ Hosts(r)
    \/ CreateVM(r)
    \/ Wait(r)

\* -------------------------------------------- ContainerStartHandler
\* The IDs a start request may name: a create request's, or one nobody has.
StartIDs == Reqs \cup {"unknown"}

\* The start worker before its request: its position, the ID asked for, the
\* response, the power-on task, the client's deadline, the error of the lookup
\* by ID, the error of the power-on, and the calls made.
StartIdle ==
    [pc |-> "idle", ID |-> Nil, resp |-> "none", task |-> "none",
     deadline |-> FALSE, findErr |-> Nil, powerErr |-> Nil, log |-> <<>>]

\* session.Finder.VirtualMachine(ctx, ID): the lookup can succeed only when
\* the control plane has a VM of that ID.
FindOutcomes(id) ==
    IF id \in Reqs /\ vms[id] # "absent" THEN {Nil, "find failed"}
    ELSE {"not found"}

\* A variant that does not test the lookup's error.
StartAfterFindUnchecked(e) == "poweron"

\* Where the start handler goes after the lookup by ID returned error e.
StartAfterFind(e) == IF e # Nil THEN "done" ELSE "poweron"

\* A variant that answers success whatever the power-on returned.
StartResponseAlwaysOK(e) == "ok"

\* The start handler's answer after the power-on returned error e.
StartResponse(e) == IF e # Nil THEN "error" ELSE "ok"

StartBegin ==
    /\ st.pc = "idle"
    /\ \E id \in StartIDs : st' = [st EXCEPT !.pc = "find", !.ID = id]
    /\ UNCHANGED <<pc, params, name, ne, s, err, linux, resp, task, deadline,
                   hist, endpoints, vms>>

\* foundvm, err := session.Finder.VirtualMachine(ctx, params.ID)
StartFind ==
    /\ st.pc = "find"
    /\ \E out \in FindOutcomes(st.ID) :
        LET next == StartAfterFind(out) IN
        st' = [st EXCEPT !.pc = next,
                         !.findErr = out,
                         !.resp = IF next = "done" THEN "error" ELSE @,
                         !.log = @ \o <<Call("VirtualMachine", Nil, st.ID)>>]
    /\ UNCHANGED <<pc, params, name, ne, s, err, linux, resp, task, deadline,
                   hist, endpoints, vms>>

\* tasks.WaitForResult calls vm.PowerOn(ctx): refused, or the task is started.
StartPowerOn ==
    /\ st.pc = "poweron"
    /\ \E out \in {Nil, "power-on refused"} :
        st' = [st EXCEPT !.pc = IF out # Nil THEN "done" ELSE "waiting",
                         !.resp = IF out # Nil THEN StartResponse(out) ELSE @,
                         !.powerErr = out,
                         !.task = IF out # Nil THEN @ ELSE "pending",
                         !.log = @ \o <<Call("PowerOn", Nil, st.ID)>>]
    /\ UNCHANGED <<pc, params, name, ne, s, err, linux, resp, task, deadline,
                   hist, endpoints, vms>>

\* The control plane resolves the power-on task.
StartTaskResolve ==
    /\ st.task = "pending"
    /\ \E out \in {"success", "error"} :
        /\ st' = [st EXCEPT !.task = out]
        /\ vms' = IF out = "success" /\ st.ID \in Reqs
                  THEN [vms EXCEPT ![st.ID] = "poweredOn"]
                  ELSE vms
    /\ UNCHANGED <<pc, params, name, ne, s, err, linux, resp, task, deadline,
                   hist, endpoints>>

\* The client's deadline fires while the start handler waits.
StartDeadline ==
    /\ st.pc = "waiting"
    /\ st.task = "pending"
    /\ ~st.deadline
    /\ st' = [st EXCEPT !.deadline = TRUE]
    /\ UNCHANGED <<pc, params, name, ne, s, err, linux, resp, task, deadline,
                   hist, endpoints, vms>>

\* tasks.WaitForResult returns, and the handler answers.
StartWait ==
    /\ st.pc = "waiting"
    /\ st.task # "pending" \/ ctxDone(st.deadline)
    /\ LET out == IF st.task = "success" THEN Nil
                  ELSE IF st.task = "error" THEN "power-on failed"
                  ELSE "cancelled"
       IN st' = [st EXCEPT !.pc = "done",
                           !.deadline = FALSE,
                           !.powerErr = out,
                           !.resp = StartResponse(out)]
    /\ UNCHANGED <<pc, params, name, ne, s, err, linux, resp, task, deadline,
                   hist, endpoints, vms>>

\* One step of the start handler.
StartHandler ==
    \/ StartBegin
    \/ StartFind
    \/ StartPowerOn
    \/ StartWait

\* ------------------------------------------------- the specification
\* The create requests that are served: one, next to one start request.
Serving == {"r1"}

Init ==
    /\ pc = [r \in Reqs |-> IF r \in Serving THEN "idle" ELSE "off"]
    /\ params = [r \in Reqs |-> NoParams]
    /\ name = [r \in Reqs |-> Nil]
    /\ ne = [r \in Reqs |-> NoEndpoint]
    /\ s = [r \in Reqs |-> Nil]
    /\ err = [r \in Reqs |-> Nil]
    /\ linux = [r \in Reqs |-> NoConfig]
    /\ resp = [r \in Reqs |-> "none"]
    /\ task = [r \in Reqs |-> "none"]
    /\ deadline = [r \in Reqs |-> FALSE]
    /\ hist = [r \in Reqs |-> NoHist]
    /\ endpoints = {}
    /\ vms = [r \in Reqs |-> "absent"]
    /\ st = StartIdle

Next ==
    \/ \E r \in Reqs : Handler(r)
    \/ \E r \in Reqs : TaskResolve(r)
    \/ \E r \in Reqs : Deadline(r)
    \/ StartHandler
    \/ StartTaskResolve
    \/ StartDeadline

Spec == Init /\ [][Next]_vars

\* Two create requests served at once, and no start request.
InitConc ==
    /\ pc = [r \in Reqs |-> "idle"]
    /\ params = [r \in Reqs |-> NoParams]
    /\ name = [r \in Reqs |-> Nil]
    /\ ne = [r \in Reqs |-> NoEndpoint]
    /\ s = [r \in Reqs |-> Nil]
    /\ err = [r \in Reqs |-> Nil]
    /\ linux = [r \in Reqs |-> NoConfig]
    /\ resp = [r \in Reqs |-> "none"]
    /\ task = [r \in Reqs |-> "none"]
    /\ deadline = [r \in Reqs |-> FALSE]
    /\ hist = [r \in Reqs |-> NoHist]
    /\ endpoints = {}
    /\ vms = [r \in Reqs |-> "absent"]
    /\ st = [StartIdle EXCEPT !.pc = "off"]

NextConc ==
    \/ \E r \in Reqs : Handler(r)
    \/ \E r \in Reqs : TaskResolve(r)
    \/ \E r \in Reqs : Deadline(r)

ConcSpec == InitConc /\ [][NextConc]_vars

\* The workers run: a handler that can take a step takes it.  Nothing makes the
\* control plane resolve a task, or a deadline fire.
FairSpec ==
    /\ Spec
    /\ \A r \in Reqs : WF_vars(Handler(r))
    /\ WF_vars(StartHandler)

\* ------------------------------------------------------- properties
IsAdd(c) == c.op = "AddContainer"
IsRelease(c) == c.op = "RemoveContainer"

\* The AddContainer and RemoveContainer calls request r made.
Adds(r) == SelectSeq(hist[r].log, IsAdd)
Releases(r) == SelectSeq(hist[r].log, IsRelease)

\* The endpoints the scopes hold that request r allocated.
Owned(r) == {e \in endpoints : e.owner = r}

\* The request carried a static address that does not parse.
Malformed(r) ==
    /\ hist[r].attached
    /\ params[r].NetworkSettings # NoNetworkConfig
    /\ params[r].NetworkSettings.Address # Nil
    /\ ParseIP(params[r].NetworkSettings.Address) = NoIP

\* The request's network resolved to a scope: the default network, or a lookup
\* by name that returned exactly one scope and no error.
Resolved(r) ==
    /\ hist[r].attached
    /\ params[r].NetworkSettings # NoNetworkConfig
    /\ \/ params[r].NetworkSettings.NetworkName = "default"
       \/ hist[r].lookupErr = Nil /\ hist[r].lookupLen = 1

\* C1: a create request whose network attach step returned an error is
\* answered with an error response, never with the success response that
\* carries a container ID.  (A handler that panicked answered nothing and is
\* left out here.)
C1_AttachErrorIsReturned ==
    \A r \in Reqs :
        (pc[r] = "done" /\ hist[r].attachErr # Nil /\ resp[r] # "panic")
            => resp[r] = "error"

\* C2: after a failed network attach the pipeline stops: NewLinuxGuest is not
\* called, no folder or host lookup is made, no create-VM call is issued.
C2_AttachErrorStopsPipeline ==
    \A r \in Reqs :
        hist[r].attachErr # Nil =>
            /\ Count(hist[r].log, "NewLinuxGuest") = 0
            /\ Count(hist[r].log, "Folders") = 0
            /\ Count(hist[r].log, "AttachedClusterHosts") = 0
            /\ Count(hist[r].log, "CreateVM") = 0

\* C3: when the lookup of a non-default network returns no scope or more than
\* one, addContainerToScope returns a non-nil error and AddContainer is not
\* called.
C3_AmbiguousScopeIsError ==
    \A r \in Reqs :
        (hist[r].lookupLen >= 0 /\ hist[r].lookupLen # 1) =>
            /\ hist[r].attachErr # Nil
            /\ Adds(r) = <<>>

\* C4: when attach allocated an endpoint and a later phase (build, folder
\* lookup, host lookup, create-VM) returned an error, the handler has, by the
\* time it has returned, called RemoveContainer exactly once, on the endpoint's
\* scope and for the request's container name, and answered with an error; no
\* release is made before the handler returns.
C4_LaterErrorReleasesOnce ==
    \A r \in Reqs :
        /\ (pc[r] = "done" /\ ne[r] # NoEndpoint /\ hist[r].failed # Nil) =>
              /\ Releases(r) = <<Call("RemoveContainer", ne[r].Name, name[r])>>
              /\ resp[r] = "error"
        /\ pc[r] # "done" => Releases(r) = <<>>

C4_Witness ==
    \E r \in Reqs :
        /\ pc[r] = "done"
        /\ ne[r] # NoEndpoint
        /\ hist[r].failed = "create"
        /\ task[r] = "error"
        /\ Len(Releases(r)) = 1
        /\ Owned(r) = {}

\* C5: when the host lookup succeeds with an empty host set, the request fails
\* as a placement error: an error is returned, the endpoint attach allocated
\* is released, and no create-VM call is issued.
C5_NoHostsIsPlacementError ==
    \A r \in Reqs :
        (pc[r] = "done" /\ hist[r].noHosts) =>
            /\ resp[r] = "error"
            /\ ne[r] # NoEndpoint => Len(Releases(r)) = 1
            /\ Count(hist[r].log, "CreateVM") = 0

\* C6: once a create request has terminated without its create-VM operation
\* having succeeded, no scope holds an endpoint the request allocated.  Stated
\* for the requests that carried an image and whose release, if one was made,
\* did not fail.
C6_NoEndpointOutlivesFailedCreate ==
    \A r \in Reqs :
        (/\ pc[r] = "done"
         /\ task[r] # "success"
         /\ params[r].Image # Nil
         /\ hist[r].relErr = Nil) => Owned(r) = {}

\* C7 (as stated): for every request whose static address does not parse,
\* addContainerToScope returns the 'invalid ip address' error, with no
\* AddContainer and no RemoveContainer call, and the handler makes no release.
\* Stated for the requests on which addContainerToScope returned an error, so
\* that a lookup that finds no scope and reports no error is not what
\* refutes it.
C7_MalformedAddressIsInvalidIP ==
    \A r \in Reqs :
        (Malformed(r) /\ hist[r].attachErr # Nil) =>
            /\ hist[r].attachErr = "invalid ip address"
            /\ Adds(r) = <<>>
            /\ Releases(r) = <<>>

\* C7 (amended): for every request whose static address does not parse, no
\* AddContainer and no RemoveContainer call is ever made for the request; and
\* when its network resolves to a scope (the default network, or a lookup that
\* returns exactly one scope and no error), addContainerToScope returns the
\* 'invalid ip address' error.
C7_MalformedAddressNeverMutates ==
    \A r \in Reqs :
        Malformed(r) =>
            /\ Adds(r) = <<>>
            /\ Releases(r) = <<>>
            /\ Owned(r) = {}
            /\ s[r] = Nil
            /\ Resolved(r) => hist[r].attachErr = "invalid ip address"

C7_Witness ==
    \E r \in Reqs :
        /\ Malformed(r)
        /\ Resolved(r)
        /\ params[r].NetworkSettings.NetworkName = "custom"
        /\ hist[r].attachErr = "invalid ip address"
        /\ pc[r] = "done"
        /\ resp[r] = "error"

\* C8: a create request without NetworkSettings gets no endpoint, no scope
\* handle and no error from attach, and makes no AddContainer and no
\* RemoveContainer call, however it ends: it leaves nothing in any scope.
C8_NoNetworkNoScopeMutation ==
    \A r \in Reqs :
        (hist[r].attached /\ params[r].NetworkSettings = NoNetworkConfig) =>
            /\ ne[r] = NoEndpoint
            /\ s[r] = Nil
            /\ hist[r].attachErr = Nil
            /\ Adds(r) = <<>>
            /\ Releases(r) = <<>>
            /\ Owned(r) = {}

C8_Witness ==
    \E r \in Reqs :
        /\ params[r].NetworkSettings = NoNetworkConfig
        /\ pc[r] = "done"
        /\ resp[r] = "error"
        /\ hist[r].failed = "folders"

\* C9: when the client's deadline fires while the create-VM or power-on task
\* is pending, the blocked handler eventually returns (with a cancellation
\* error) even if the task never resolves.
C9_DeadlineUnblocksWaiter ==
    /\ \A r \in Reqs : (pc[r] = "waiting" /\ deadline[r]) ~> (pc[r] = "done")
    /\ (st.pc = "waiting" /\ st.deadline) ~> (st.pc = "done")

\* C10: a start request whose lookup by ID fails returns an error and issues
\* no power-on call, and the failing lookup changes no container's state and
\* no scope's endpoints.
C10_FailedLookupChangesNothing ==
    /\ [](st.findErr # Nil =>
            /\ st.pc = "done"
            /\ st.resp = "error"
            /\ st.task = "none"
            /\ Count(st.log, "PowerOn") = 0)
    /\ [][(st.pc = "find" /\ st'.findErr # Nil) =>
            (vms' = vms /\ endpoints' = endpoints)]_vars

C10_Witness ==
    /\ st.pc = "done"
    /\ st.ID = "unknown"
    /\ st.findErr = "not found"
    /\ \E r \in Reqs : vms[r] = "created" /\ Owned(r) # {}


\* C11: when the power-on of a start request fails, the handler returns an
\* error and the container stays Created, and no RemoveContainer call is made;
\* no step of the start handler, on any path, changes a scope's endpoints.
C11_FailedPowerOnKeepsCreated ==
    /\ [](st.powerErr # Nil =>
            /\ st.pc = "done"
            /\ st.resp = "error"
            /\ st.ID \in Reqs
            /\ vms[st.ID] = "created"
            /\ Count(st.log, "RemoveContainer") = 0)
    /\ [][st' # st => endpoints' = endpoints]_vars

C11_Witness ==
    /\ st.pc = "done"
    /\ st.powerErr = "power-on failed"
    /\ st.task = "error"
    /\ st.ID \in Reqs
    /\ vms[st.ID] = "created"
    /\ Owned(st.ID) # {}

\* C12: a create request that lacks a required field (the command path or the
\* image reference) ends with an error returned to the caller, not with a
\* crash of the handler, and leaves no endpoint of its own in a scope.
C12_MissingFieldIsValidationError ==
    \A r \in Reqs :
        (pc[r] = "done" /\ (params[r].Path = Nil \/ params[r].Image = Nil)) =>
            /\ resp[r] = "error"
            /\ Owned(r) = {}

\* The calls of a create request and of a start request that may fail.
CreateOps ==
    {"AddContainer", "NewLinuxGuest", "Folders", "AttachedClusterHosts",
     "CreateVM"}
StartOps == {"VirtualMachine", "PowerOn"}

\* No call is issued twice within one request.
AtMostOnce ==
    /\ \A r \in Reqs : \A op \in CreateOps : Count(hist[r].log, op) <= 1
    /\ \A op \in StartOps : Count(st.log, op) <= 1

\* C13: nothing is retried: within one create request each of attach, build,
\* folder lookup, host lookup and create-VM is issued at most once, within one
\* start request each of VM lookup and power-on at most once, and the first
\* failing call leads to the error return.  (A handler that panicked answered
\* nothing and is left out here.)
C13_NoRetryFirstFailureReturns ==
    /\ AtMostOnce
    /\ \A r \in Reqs :
        (/\ pc[r] = "done"
         /\ resp[r] # "panic"
         /\ hist[r].attachErr # Nil \/ hist[r].failed # Nil) => resp[r] = "error"
    /\ (st.pc = "done" /\ (st.findErr # Nil \/ st.powerErr # Nil)) =>
            st.resp = "error"

\* The errors a phase of the create handler returns.
PhaseErrors(phase) ==
    IF phase = "build" THEN {"guest failed"}
    ELSE IF phase = "folders" THEN {"folders failed"}
    ELSE IF phase = "hosts" THEN {"hosts failed"}
    ELSE IF phase = "create" THEN {"create refused", "create failed"}
    ELSE {}

\* C14: when the compensating RemoveContainer fails, the response still
\* carries the error of the phase that failed: the release's outcome neither
\* changes nor replaces it.
C14_ReleaseFailureKeepsError ==
    \A r \in Reqs :
        hist[r].relErr # Nil =>
            /\ pc[r] = "done"
            /\ resp[r] = "error"
            /\ hist[r].msg \in PhaseErrors(hist[r].failed)

C14_Witness ==
    \E r \in Reqs :
        /\ pc[r] = "done"
        /\ hist[r].relErr = "remove failed"
        /\ hist[r].failed = "hosts"
        /\ hist[r].msg = "hosts failed"
        /\ Owned(r) # {}

\* Request r asked for the static address addr on network nw.
AsksStatic(r, nw, addr) ==
    /\ hist[r].attached
    /\ params[r].NetworkSettings.NetworkName = nw
    /\ params[r].NetworkSettings.Address = addr

Embedded(a) == [key |-> a.scope, value |-> [IP |-> a.ip, Name |-> a.scope]]

\* C16: for a create request that succeeds with a network attachment, the
\* configuration passed to the create-VM call contains exactly the endpoint
\* this request's attach allocated, keyed by the name of its scope, and the
\* container ID returned equals the ID in that configuration.
C16_ConfigEmbedsAllocatedEndpoint ==
    \A r \in Reqs :
        (pc[r] = "done" /\ resp[r] = "ok" /\ hist[r].allocated # {}) =>
            /\ hist[r].sent.Networks = {Embedded(a) : a \in hist[r].allocated}
            /\ hist[r].containerID # Nil
            /\ hist[r].containerID = hist[r].sent.ID

C16_Witness ==
    \E r \in Reqs :
        /\ pc[r] = "done" /\ resp[r] = "ok"
        /\ hist[r].allocated = {[scope |-> CustomScopes[1], name |-> name[r],
                                 ip |-> 2, owner |-> r]}
        /\ hist[r].sent.Networks =
              {[key |-> CustomScopes[1],
                value |-> [IP |-> 2, Name |-> CustomScopes[1]]]}
        /\ hist[r].containerID = r
        /\ vms[r] = "created"

\* The calls request r made to its collaborators other than the release, by
\* name and in order.
PhaseCalls(r) ==
    LET IsPhase(c) == c.op # "RemoveContainer"
        calls == SelectSeq(hist[r].log, IsPhase)
    IN [i \in 1..Len(calls) |-> calls[i].op]

IsPrefix(p, q) == Len(p) <= Len(q) /\ p = SubSeq(q, 1, Len(p))

AfterAttach == <<"NewLinuxGuest", "Folders", "AttachedClusterHosts", "CreateVM">>

\* C17: within one create request the phases run in the order attach, build,
\* folder lookup, host lookup, create-VM, and the create-VM call is made only
\* after the build returned without error, with the configuration it built.
C17_PhasesInOrderBuildBeforeCreate ==
    \A r \in Reqs :
        /\ \/ IsPrefix(PhaseCalls(r), <<"AddContainer">> \o AfterAttach)
           \/ IsPrefix(PhaseCalls(r), AfterAttach)
        /\ PhaseCalls(r) # <<>> => hist[r].attached
        /\ Count(hist[r].log, "CreateVM") > 0 =>
              /\ hist[r].built
              /\ hist[r].sent # NoConfig
              /\ hist[r].sent.ID = r

C17_Witness ==
    \E r \in Reqs :
        /\ pc[r] = "done"
        /\ PhaseCalls(r) = <<"AddContainer">> \o AfterAttach
        /\ hist[r].built
        /\ hist[r].sent = linux[r]
        /\ linux[r] # NoConfig

\* C18: a create request that returns the success response never calls
\* RemoveContainer, and the endpoint its attach allocated is still in the
\* scope when the handler has returned.
C18_SuccessKeepsEndpoint ==
    \A r \in Reqs :
        (pc[r] = "done" /\ resp[r] = "ok") =>
            /\ Releases(r) = <<>>
            /\ hist[r].relErr = Nil
            /\ hist[r].allocated \subseteq endpoints

C18_Witness ==
    \E r \in Reqs :
        /\ pc[r] = "done" /\ resp[r] = "ok"
        /\ s[r] # Nil
        /\ hist[r].allocated # {}
        /\ hist[r].allocated = Owned(r)
        /\ Count(hist[r].log, "RemoveContainer") = 0

\* Request r has failed: its handler has returned without the success
\* response.
Failed(r) == pc[r] = "done" /\ resp[r] # "ok"

====
